---------------------------- MODULE Spec2Model ----------------------------
(***************************************************************************)
(* Model of the SmartCart-AI shopping agent (src/backend).                 *)
(*                                                                         *)
(* Spec       : one mission's LangGraph loop observer -> reasoning ->      *)
(*              action -> {observer | END} (agent_graph.py, agent_nodes.py,*)
(*              agent_state.py, ai_vision.py, gemini_helper.py).           *)
(* SpecGuard  : the safety guard check_before_click as a function of the   *)
(*              element text and the page classification                   *)
(*              (checkout_guard.py).                                       *)
(* SpecResolver: get_element_by_marker as a function of the candidate      *)
(*              selectors and of what each finds on the page               *)
(*              (vision_utils.py).                                         *)
(* SpecRegistry: inject_markers as a function of the rendered page         *)
(*              (vision_utils.py).                                         *)
(* SpecLive   : Spec with every step of the loop eventually taken.         *)
(* SpecService: the sessions of AgentExecutor: create_session,             *)
(*              cancel_session and the event streams of concurrent         *)
(*              execute_mission generators, with the module-global browser *)
(*              of agent_nodes.py (agent_service.py).                      *)
(* SpecSessions: the dictionary AgentExecutor.sessions and the session     *)
(*              objects its ids refer to (agent_service.py).               *)
(* SpecOracle : the requests of one analyze_page call (ai_vision.py).      *)
(* SpecPrompt : the action history shown to the oracle (agent_state.py,    *)
(*              gemini_helper.py).                                         *)
(* SpecCache  : is_checkout_page and its detection cache                   *)
(*              (checkout_guard.py).                                       *)
(* SpecEnhance: enhance_element_with_amazon_selectors                      *)
(*              (amazon_selectors.py).                                     *)
(*                                                                         *)
(* Encoding of Python values                                               *)
(*   - a str that the code inspects character by character is a tuple of   *)
(*     one-character strings;                                              *)
(*   - None of an optional string field is Null; a key that is absent from *)
(*     a parsed JSON object is Missing;                                    *)
(*   - a target of None is NoTarget (0): None and 0 are both falsy in      *)
(*     validate_action and neither is ever a key of the label map;         *)
(*   - a confidence c in [0, 1] is the integer 100 * c.                    *)
(***************************************************************************)
EXTENDS Integers, Sequences, FiniteSets, TLC

VARIABLES
    pc,                 \* what runs next: observer / reasoning / oracle / action / END
    status,             \* state["status"]
    iterations,         \* state["iterations"]
    max_iterations,     \* state["max_iterations"]
    last_action,        \* state["last_action"]
    action_history,     \* state["action_history"]
    error,              \* state["error"]
    approval_required,  \* state["approval_required"]
    approval_granted,   \* state["approval_granted"]
    markers_map,        \* state["markers_map"]: label -> element text
    screenshot_base64,  \* state["screenshot_base64"]: 0 is "", n is the shot of cycle n
    vision_analyzer,    \* ai_vision._vision_analyzer: TRUE once the singleton exists
    cycles,             \* history: number of observer_node runs so far
    ever_complete,      \* history: status has been "complete" at some point
    trace,              \* history: what the stages of the current cycle did
    page_labels,        \* number of .ai-marker-label elements on the page
    fn,                 \* function under test in the function harnesses
    arg,                \* its arguments
    ret,                \* its result, NoRet before the call
    svc                 \* AgentExecutor.sessions, the event streams, agent_nodes._browser

vars == <<pc, status, iterations, max_iterations, last_action, action_history,
          error, approval_required, approval_granted, markers_map,
          screenshot_base64, vision_analyzer, cycles, ever_complete,
          trace, page_labels, fn, arg, ret, svc>>

missionVars == <<pc, status, iterations, max_iterations, last_action,
                 action_history, error, approval_required, approval_granted,
                 markers_map, screenshot_base64, vision_analyzer, cycles,
                 ever_complete, trace, page_labels>>

harnessVars == <<fn, arg, ret>>

serviceVars == <<svc>>

----------------------------------------------------------------------------
(* Bounds *)

\* largest max_iterations a mission is created with
MaxIterations == 2

\* cap on the number of cycles explored (the loop itself has no such cap)
MaxCycles == MaxIterations + 1

----------------------------------------------------------------------------
(* Python values *)

Null == "null"

Missing == "missing"

NoTarget == 0

\* a truthy value that is not a str (e.g. the JSON number 5)
NonStrValue == "<number>"

Truthy(v) == v \notin {Null, Missing, ""}

----------------------------------------------------------------------------
(* Strings as character tuples; str.lower() and the `in` substring test *)

UpperChars == <<"A", "B", "C", "D", "E", "F", "G", "H", "I", "J", "K", "L", "M", "N", "O", "P", "Q", "R", "S", "T", "U", "V", "W", "X", "Y", "Z">>

LowerChars == <<"a", "b", "c", "d", "e", "f", "g", "h", "i", "j", "k", "l", "m", "n", "o", "p", "q", "r", "s", "t", "u", "v", "w", "x", "y", "z">>

\* the lower-case letter of each upper-case letter
LowerOf ==
    [c \in {UpperChars[i] : i \in 1..Len(UpperChars)} |->
        LowerChars[CHOOSE i \in 1..Len(UpperChars) : UpperChars[i] = c]]

LowerChar(c) == IF c \in DOMAIN LowerOf THEN LowerOf[c] ELSE c

lower(s) == [i \in 1..Len(s) |-> LowerChar(s[i])]

\* Python's `k in s` for strings
Contains(s, k) ==
    \E i \in 1..(Len(s) - Len(k) + 1) : SubSeq(s, i, i + Len(k) - 1) = k

----------------------------------------------------------------------------
(* checkout_guard.py *)

high_risk_keywords == <<
    <<"p", "l", "a", "c", "e", " ", "o", "r", "d", "e", "r">>,
    <<"c", "o", "m", "p", "l", "e", "t", "e", " ", "p", "u", "r", "c", "h", "a", "s", "e">>,
    <<"c", "o", "n", "f", "i", "r", "m", " ", "o", "r", "d", "e", "r">>,
    <<"b", "u", "y", " ", "n", "o", "w">>,
    <<"c", "o", "m", "p", "l", "e", "t", "e", " ", "o", "r", "d", "e", "r">>,
    <<"s", "u", "b", "m", "i", "t", " ", "o", "r", "d", "e", "r">>,
    <<"p", "a", "y", " ", "n", "o", "w">>,
    <<"c", "o", "n", "f", "i", "r", "m", " ", "p", "u", "r", "c", "h", "a", "s", "e">>,
    <<"c", "h", "e", "c", "k", "o", "u", "t">>,
    <<"c", "o", "n", "f", "i", "r", "m", " ", "p", "a", "y", "m", "e", "n", "t">> >>

\* `detection.get('confidence', 0) > 0.7`, in hundredths
CONFIDENCE_THRESHOLD == 70

\* any(keyword in element_text_lower for keyword in high_risk_keywords)
is_risky_element(element_text) ==
    LET element_text_lower == lower(element_text)
    IN  \E n \in 1..Len(high_risk_keywords) :
            Contains(element_text_lower, high_risk_keywords[n])

\* a guard in which the page classification alone is enough
check_before_click_page_alone(element_text, detection) ==
    LET on_checkout == detection.is_checkout
                       /\ detection.confidence > CONFIDENCE_THRESHOLD
        requires_approval == on_checkout \/ is_risky_element(element_text)
    IN  [safe              |-> ~requires_approval,
         requires_approval |-> requires_approval,
         reason            |-> IF requires_approval THEN "risky" ELSE "safe",
         checkout_info     |-> detection.is_checkout]

\* check_before_click, given the result `detection` of is_checkout_page
check_before_click(element_text, detection) ==
    LET risky == is_risky_element(element_text)
        on_checkout == detection.is_checkout
                       /\ detection.confidence > CONFIDENCE_THRESHOLD
        requires_approval ==
            IF on_checkout
            THEN (IF risky THEN TRUE ELSE FALSE)
            ELSE (IF risky THEN TRUE ELSE FALSE)
        reason ==
            IF on_checkout
            THEN (IF risky THEN "checkout" ELSE "checkout-safe")
            ELSE (IF risky THEN "risky" ELSE "safe")
    IN  [safe              |-> ~requires_approval,
         requires_approval |-> requires_approval,
         reason            |-> reason,
         checkout_info     |-> detection.is_checkout]

----------------------------------------------------------------------------
(* Element texts and page classifications used as inputs *)

PlaceYourOrder == <<"P", "l", "a", "c", "e", " ", "y", "o", "u", "r", " ", "o", "r", "d", "e", "r">>

BuyNow == <<"B", "u", "y", " ", "N", "o", "w">>

ContinueShopping == <<"C", "o", "n", "t", "i", "n", "u", "e", " ", "s", "h", "o", "p", "p", "i", "n", "g">>

AddToCart == <<"A", "d", "d", " ", "t", "o", " ", "C", "a", "r", "t">>

ProceedToCheckout == <<"P", "r", "o", "c", "e", "e", "d", " ", "t", "o", " ", "C", "h", "e", "c", "k", "o", "u", "t">>

PlaceOrderUpper == <<"P", "L", "A", "C", "E", " ", "O", "R", "D", "E", "R">>

PayNow == <<"P", "a", "y", " ", "N", "o", "w">>

CheckOut == <<"C", "h", "e", "c", "k", " ", "o", "u", "t">>

PlaceOrderGap == <<"p", "l", "a", "c", "e", " ", " ", "o", "r", "d", "e", "r">>

SubmitOrder == <<"S", "u", "b", "m", "i", "t", " ", "o", "r", "d", "e", "r">>

ConfirmPurchase == <<"c", "o", "n", "f", "i", "r", "m", " ", "p", "u", "r", "c", "h", "a", "s", "e">>

BuyNothing == <<"B", "u", "y", " ", "n", "o", "t", "h", "i", "n", "g">>

CompleteOrder == <<"C", "o", "m", "p", "l", "e", "t", "e", " ", "O", "r", "d", "e", "r">>

Orders == <<"O", "r", "d", "e", "r", "s">>

GuardCores ==
    {<<>>, PlaceYourOrder, BuyNow, ContinueShopping, AddToCart,
     ProceedToCheckout, PlaceOrderUpper, PayNow, CheckOut, PlaceOrderGap,
     SubmitOrder, ConfirmPurchase, BuyNothing, CompleteOrder, Orders}

GuardPrefixes == {<<>>, <<"G", "o", ":", " ">>, <<"c", "h", "e", "c", "k">>}

GuardSuffixes == {<<>>, <<"!">>, <<"o", "u", "t">>}

GuardTexts ==
    {p \o c \o s : p \in GuardPrefixes, c \in GuardCores, s \in GuardSuffixes}

Confidences == {0, 10, 50, 70, 71, 90, 100}

\* results of is_checkout_page (its failure result is is_checkout False, 0.0)
Detections == [is_checkout : BOOLEAN, confidence : Confidences]

----------------------------------------------------------------------------
(* Function harness: Init draws the arguments, the call stores the result *)

NoArg == [none |-> TRUE]

NoRet == [none |-> TRUE]

HarnessIdle == fn = "none" /\ arg = NoArg /\ ret = NoRet

----------------------------------------------------------------------------
(* agent_service.py: the sessions of the executor *)

\* session ids the clients use
SessionIds == {"s1", "s2"}

\* no BrowserController
NoBrowser == "none"

\* AgentSession.__init__, with the position and the history of the
\* execute_mission generator run on the session:
\*   at     where the generator is suspended
\*            "idle"        execute_mission has not been called
\*            "started"     at yield {"type": "started"}
\*            "navigated"   at yield {"type": "navigation"}
\*            "in_node"     a node of the graph is running (awaiting the browser
\*                          or the oracle)
\*            "updated"     at yield update, for a state_update
\*            "graph_error" at yield update, for the error event of _run_graph
\*            "terminal"    at a yield after which only the finally block runs
\*            "done"        the generator has finished
\*   node   the node of the graph that ran last or is running
\*   loops  number of cycles started
\*   used   the browser get_browser() gave to the node, used_closed whether it
\*          had been closed by then
\*   exit   why the async-for over _run_graph ended
\*   status session.state["status"] when the graph routed to END
\*   events the types of the events yielded so far
NewSession ==
    [exists |-> TRUE, is_running |-> FALSE, is_cancelled |-> FALSE,
     browser |-> FALSE, at |-> "idle", node |-> "none", loops |-> 0,
     used |-> NoBrowser, used_closed |-> FALSE, exit |-> "none",
     status |-> "none", events |-> <<>>]

\* an id that is not a key of AgentExecutor.sessions
NoSession == [NewSession EXCEPT !.exists = FALSE]

\* AgentExecutor.__init__ and agent_nodes._browser = None; `closed` is the
\* set of browsers whose close() has run, named by the session that made them
ServiceIdle ==
    [sessions |-> [id \in SessionIds |-> NoSession],
     browser  |-> NoBrowser,
     closed   |-> {}]

----------------------------------------------------------------------------
(* gemini_helper.py, ai_vision.py: the decision oracle *)

\* state["last_action"] is None
NoneAction == [action |-> Null, target |-> NoTarget, value |-> Null, reasoning |-> Null]

Json(a, t, v, r) == [kind |-> "json", action |-> a, target |-> t, value |-> v, reasoning |-> r]

\* what one request to the model can come back as: an exception of
\* generate_content, text that parse_gemini_json cannot parse, or a JSON object
OracleResponses ==
    { [kind |-> "exception",   action |-> Missing, target |-> NoTarget, value |-> Null, reasoning |-> Missing],
      [kind |-> "unparseable", action |-> Missing, target |-> NoTarget, value |-> Null, reasoning |-> Missing],
      Json(Missing,  1,        Null,        "text"),
      Json("hover",  1,        Null,        "text"),
      Json("click",  1,        Null,        Missing),
      Json("click",  1,        Null,        Null),
      Json("click",  NoTarget, Null,        "text"),
      Json("type",   1,        "",          "text"),
      Json("click",  1,        Null,        "text"),
      Json("click",  99,       Null,        "text"),
      Json("type",   1,        "usb",       "text"),
      Json("type",   NoTarget, "usb",       "text"),
      Json("type",   1,        NonStrValue, "text"),
      Json("scroll", NoTarget, Null,        "text"),
      Json("done",   NoTarget, Null,        "text") }

\* the action dictionary parsed from a JSON response
ParsedAction(r) == [action |-> r.action, target |-> r.target, value |-> r.value, reasoning |-> r.reasoning]

valid_actions == {"click", "type", "scroll", "done"}

validate_action(action) ==
    IF action.action = Missing \/ action.reasoning = Missing THEN FALSE
    ELSE IF action.action \notin valid_actions THEN FALSE
    ELSE IF action.action = "type" /\ ~Truthy(action.value) THEN FALSE
    ELSE IF action.action = "click" /\ action.target = NoTarget THEN FALSE
    ELSE TRUE

\* for attempt in range(max_retries)
max_retries == 3

\* one pass through the body of the retry loop does not raise:
\* the request returns, the text parses, the action validates and
\* action.get('reasoning')[:100] can be evaluated for the log line
AttemptSucceeds(r) ==
    /\ r.kind = "json"
    /\ validate_action(ParsedAction(r))
    /\ r.reasoning # Null

\* the "safe fallback action" of analyze_page's outer except
FallbackAction == [action |-> "done", target |-> NoTarget, value |-> Null, reasoning |-> "Error during analysis"]

----------------------------------------------------------------------------
(* agent_state.py *)

\* the fields of the AgentState dictionary that the stop test reads
StateOf(st, la, it, mx, ar, ag) ==
    [status |-> st, last_action |-> la, iterations |-> it, max_iterations |-> mx,
     approval_required |-> ar, approval_granted |-> ag]

is_complete(state) ==
    IF state.status = "complete" THEN TRUE
    ELSE IF state.last_action # NoneAction /\ state.last_action.action = "done" THEN TRUE
    ELSE FALSE

\* a stop test that lets the counter pass the budget by one
should_stop_off_by_one(state) ==
    IF is_complete(state) THEN TRUE
    ELSE IF state.iterations > state.max_iterations THEN TRUE
    ELSE IF state.status = "error" THEN TRUE
    ELSE IF state.approval_required /\ ~state.approval_granted THEN TRUE
    ELSE FALSE

\* a stop test that does not look at completion
should_stop_ignores_complete(state) ==
    IF state.iterations >= state.max_iterations THEN TRUE
    ELSE IF state.status = "error" THEN TRUE
    ELSE IF state.approval_required /\ ~state.approval_granted THEN TRUE
    ELSE FALSE

\* a stop test that does not look at a pending approval
should_stop_ignores_approval(state) ==
    IF is_complete(state) THEN TRUE
    ELSE IF state.iterations >= state.max_iterations THEN TRUE
    ELSE IF state.status = "error" THEN TRUE
    ELSE FALSE

should_stop(state) ==
    IF is_complete(state) THEN TRUE
    ELSE IF state.iterations >= state.max_iterations THEN TRUE
    ELSE IF state.status = "error" THEN TRUE
    ELSE IF state.approval_required /\ ~state.approval_granted THEN TRUE
    ELSE FALSE

----------------------------------------------------------------------------
(* agent_graph.py *)

\* a reason that follows the order of the tests in should_stop
stop_reason_budget_before_error(state) ==
    IF is_complete(state) THEN "mission complete"
    ELSE IF state.iterations >= state.max_iterations THEN "max iterations reached"
    ELSE IF state.status = "error" THEN "error"
    ELSE IF state.approval_required THEN "waiting for approval"
    ELSE "unknown"

\* the reason route_after_action logs when it ends the loop
stop_reason(state) ==
    IF is_complete(state) THEN "mission complete"
    ELSE IF state.status = "error" THEN "error"
    ELSE IF state.iterations >= state.max_iterations THEN "max iterations reached"
    ELSE IF state.approval_required THEN "waiting for approval"
    ELSE "unknown"

route_after_action(state) == IF should_stop(state) THEN "end" ELSE "continue"

\* the node the conditional edge maps each route to
AfterAction(route) == IF route = "continue" THEN "observer" ELSE "END"

----------------------------------------------------------------------------
(* The page as the Element Registry reports it *)

Elem(t, a) == [text |-> t, aria_label |-> a]

\* label maps inject_markers can return: label i is element i of the tuple
Pages ==
    { <<>>,
      <<Elem(BuyNow, <<>>)>>,
      <<Elem(<<>>, PlaceYourOrder)>>,
      <<Elem(ContinueShopping, <<>>), Elem(AddToCart, <<>>)>> }

\* classifications is_checkout_page can hand to the guard during a mission
MissionDetections == [is_checkout : BOOLEAN, confidence : {10, 90}]

----------------------------------------------------------------------------
(* vision_utils.py: the Target Resolver, as far as the executor sees it *)

\* get_element_by_marker: None for a label that is not in the map; otherwise
\* `probe` says whether some candidate selector was found on the page
get_element_by_marker(markers, marker_number, probe) ==
    IF marker_number \notin DOMAIN markers THEN Null
    ELSE IF probe THEN "selector"
    ELSE Null

----------------------------------------------------------------------------
(* agent_nodes.py: the Action Executor *)

NoEffect ==
    [verdict |-> "none", approval |-> FALSE, strategies |-> <<>>,
     results |-> <<>>, clicked |-> FALSE, outcome |-> "none"]

\* click attempts that go on after an attempt has succeeded
ClickStrategies_no_stop(s1, s2, s3) ==
    [strategies |-> <<"standard", "script", "forced">>,
     results    |-> <<s1, s2, s3>>,
     clicked    |-> (s1 = "ok" \/ s2 = "clicked" \/ s3 = "ok"),
     outcome    |-> IF s1 = "ok" \/ s2 # "raise" \/ s3 = "ok"
                    THEN "success" ELSE "failed"]

\* the three click attempts of execute_click.
\*   s1: wait_for_selector + click            "ok" | "fail"
\*   s2: evaluate(querySelector(..).click())  "clicked" | "no_element" | "raise"
\*   s3: click(force=True)                    "ok" | "fail"
ClickStrategies(s1, s2, s3) ==
    IF s1 = "ok"
    THEN [strategies |-> <<"standard">>, results |-> <<s1>>,
          clicked |-> TRUE, outcome |-> "success"]
    ELSE IF s2 # "raise"
    THEN [strategies |-> <<"standard", "script">>, results |-> <<s1, s2>>,
          clicked |-> (s2 = "clicked"), outcome |-> "success"]
    ELSE IF s3 = "ok"
    THEN [strategies |-> <<"standard", "script", "forced">>,
          results |-> <<s1, s2, s3>>, clicked |-> TRUE, outcome |-> "success"]
    ELSE [strategies |-> <<"standard", "script", "forced">>,
          results |-> <<s1, s2, s3>>, clicked |-> FALSE, outcome |-> "failed"]

\* an executor that records the approval request and clicks all the same
execute_click_no_return(markers, target, probe, detection, s1, s2, s3) ==
    IF get_element_by_marker(markers, target, probe) = Null
    THEN [NoEffect EXCEPT !.outcome = "failed"]
    ELSE LET element_info == markers[target]
             element_text == IF element_info.text # <<>> THEN element_info.text
                             ELSE element_info.aria_label
             safety_check == check_before_click(element_text, detection)
             c == ClickStrategies(s1, s2, s3)
         IN  [verdict    |-> IF safety_check.requires_approval THEN "required" ELSE "safe",
              approval   |-> safety_check.requires_approval,
              strategies |-> c.strategies,
              results    |-> c.results,
              clicked    |-> c.clicked,
              outcome    |-> c.outcome]

\* execute_click: what it did, and whether it set approval_required
execute_click(markers, target, probe, detection, s1, s2, s3) ==
    IF get_element_by_marker(markers, target, probe) = Null
    THEN [NoEffect EXCEPT !.outcome = "failed"]
    ELSE LET element_info == markers[target]
             element_text == IF element_info.text # <<>> THEN element_info.text
                             ELSE element_info.aria_label
             safety_check == check_before_click(element_text, detection)
         IN  IF safety_check.requires_approval
             THEN [NoEffect EXCEPT !.verdict = "required", !.approval = TRUE,
                                   !.outcome = "approval"]
             ELSE LET c == ClickStrategies(s1, s2, s3)
                  IN  [verdict    |-> "safe",
                       approval   |-> FALSE,
                       strategies |-> c.strategies,
                       results    |-> c.results,
                       clicked    |-> c.clicked,
                       outcome    |-> c.outcome]

\* the stages of execute_type after the target resolved, in order
TypeStages == <<"wait", "focus", "clear", "type", "enter">>

\* execute_type: `failed_stage` is the stage that raises, 0 if none does
execute_type(markers, target, probe, failed_stage) ==
    IF get_element_by_marker(markers, target, probe) = Null
    THEN [typed |-> FALSE, outcome |-> "failed"]
    ELSE [typed   |-> (failed_stage = 0 \/ failed_stage > 4),
          outcome |-> IF failed_stage = 0 THEN "success" ELSE "failed"]

\* execute_scroll: browser.scroll reports a failed scroll by returning False
\* (the return value is not looked at)
execute_scroll(scrolled) == [scrolled |-> scrolled, outcome |-> "success"]

----------------------------------------------------------------------------
(* agent_state.py: create_initial_state *)

NewTrace ==
    [obs |-> "none", map_built |-> FALSE, oracle_calls |-> 0, decision |-> "none",
     dispatched |-> NoneAction, verdict |-> "none", strategies |-> <<>>,
     results |-> <<>>,
     performed |-> "none", outcome |-> "none"]

create_initial_state(max_iter) ==
    /\ pc = "observer"
    /\ status = "planning"
    /\ iterations = 0
    /\ max_iterations = max_iter
    /\ last_action = NoneAction
    /\ action_history = <<>>
    /\ error = Null
    /\ approval_required = FALSE
    /\ approval_granted = FALSE
    /\ markers_map = <<>>
    /\ screenshot_base64 = 0
    /\ vision_analyzer = FALSE
    /\ cycles = 0
    /\ ever_complete = FALSE
    /\ trace = NewTrace
    /\ page_labels = 0

Init ==
    /\ \E max_iter \in 0..MaxIterations : create_initial_state(max_iter)
    /\ HarnessIdle
    /\ svc = ServiceIdle

----------------------------------------------------------------------------
(* agent_nodes.py: the three nodes of the graph *)

\* largest number of elements on a page of Pages
MaxLabels == 2

\* the labels on the page after inject_markers has returned `markers`: one
\* for each entry; when it returned {} because page.evaluate or the
\* enhancement of an entry raised, whatever the script had drawn, or what was
\* there before if the script never ran
LabelsDrawn(markers) ==
    IF markers # <<>> THEN {Len(markers)} ELSE 0..MaxLabels

\* the labels on the page after the end of action_node: remove_markers is
\* reached only when an action was dispatched and nothing raised (its
\* page.evaluate is taken to succeed)
remove_markers(labels, reached) ==
    IF reached THEN 0 ELSE labels

\* observer_node. get_browser or inject_markers can raise before the label map
\* is stored ("before_map"), take_screenshot after it ("screenshot").
observer_node ==
    /\ pc = "observer"
    /\ cycles < MaxCycles
    /\ cycles' = cycles + 1
    /\ \E raised \in {"no", "before_map", "screenshot"} :
         /\ IF raised = "before_map"
            THEN UNCHANGED <<markers_map, page_labels>>
            ELSE /\ markers_map' \in Pages
                 /\ page_labels' \in LabelsDrawn(markers_map')
         /\ IF raised = "no"
            THEN /\ screenshot_base64' = cycles'
                 /\ status' = "observing"
                 /\ UNCHANGED error
            ELSE /\ UNCHANGED screenshot_base64
                 /\ status' = "error"
                 /\ error' = "Observation failed"
         /\ trace' = [NewTrace EXCEPT !.obs = IF raised = "no" THEN "ok" ELSE "failed",
                                      !.map_built = (raised # "before_map")]
    /\ pc' = "reasoning"
    /\ UNCHANGED <<iterations, max_iterations, last_action, action_history,
                   approval_required, approval_granted, vision_analyzer,
                   ever_complete>>
    /\ UNCHANGED <<harnessVars, serviceVars>>

\* reasoning_node from the point where analyze_page has returned `action`:
\* the planned action is stored and a "done" action completes the mission
reasoning_decided(action, source, calls) ==
    /\ last_action' = action
    /\ status' = IF action.action = "done" THEN "complete" ELSE status
    /\ ever_complete' = (ever_complete \/ action.action = "done")
    /\ trace' = [trace EXCEPT !.decision = source, !.oracle_calls = calls]
    /\ pc' = "action"

\* reasoning_node up to the first request of analyze_page.
\* get_vision_analyzer raises when the singleton cannot be built; in
\* analyze_page an empty screenshot makes _base64_to_image raise before any
\* request, which the outer except turns into the fallback action.
reasoning_node ==
    /\ pc = "reasoning"
    /\ \E built \in BOOLEAN :
         IF ~vision_analyzer /\ ~built
         THEN /\ status' = "error"
              /\ error' = "Reasoning failed"
              /\ trace' = [trace EXCEPT !.decision = "raised"]
              /\ pc' = "action"
              /\ UNCHANGED <<last_action, vision_analyzer, ever_complete>>
         ELSE /\ vision_analyzer' = TRUE
              /\ UNCHANGED error
              /\ IF screenshot_base64 = 0
                 THEN /\ status' = "complete"
                      /\ last_action' = FallbackAction
                      /\ ever_complete' = TRUE
                      /\ trace' = [trace EXCEPT !.decision = "fallback"]
                      /\ pc' = "action"
                 ELSE /\ status' = "reasoning"
                      /\ pc' = "oracle"
                      /\ UNCHANGED <<last_action, ever_complete, trace>>
    /\ UNCHANGED <<iterations, max_iterations, action_history, approval_required,
                   approval_granted, markers_map, screenshot_base64, cycles,
                   page_labels>>
    /\ UNCHANGED <<harnessVars, serviceVars>>

\* one pass through the retry loop of analyze_page: a request, then either
\* the action is returned, or the loop sleeps and goes round again, or (last
\* attempt) the exception reaches the outer except and the fallback is returned
analyze_page_attempt ==
    /\ pc = "oracle"
    /\ \E response \in OracleResponses :
         LET attempt == trace.oracle_calls
         IN  IF AttemptSucceeds(response)
             THEN reasoning_decided(ParsedAction(response), "oracle", attempt + 1)
             ELSE IF attempt < max_retries - 1
             THEN /\ trace' = [trace EXCEPT !.oracle_calls = attempt + 1]
                  /\ UNCHANGED <<pc, status, last_action, ever_complete>>
             ELSE reasoning_decided(FallbackAction, "fallback", attempt + 1)
    /\ UNCHANGED <<iterations, max_iterations, action_history, error,
                   approval_required, approval_granted, markers_map,
                   screenshot_base64, vision_analyzer, cycles, page_labels>>
    /\ UNCHANGED <<harnessVars, serviceVars>>

\* an end of action_node that counts the action and does not append it
Recorded_without_append(action) ==
    /\ last_action' = action
    /\ UNCHANGED action_history
    /\ iterations' = iterations + 1
    /\ UNCHANGED error

\* an end of action_node that appends the action and leaves the counter
Recorded_without_increment(action) ==
    /\ last_action' = action
    /\ action_history' = Append(action_history, action)
    /\ UNCHANGED iterations
    /\ UNCHANGED error

\* the end of action_node after a dispatch: add_action, increment_iteration
Recorded(action) ==
    /\ last_action' = action
    /\ action_history' = Append(action_history, action)
    /\ iterations' = iterations + 1
    /\ UNCHANGED error

\* action_node, followed by the conditional edge route_after_action
action_node ==
    /\ pc = "action"
    /\ LET action == last_action
       IN  \/ /\ action = NoneAction
              /\ status' = "executing"
              /\ UNCHANGED <<last_action, action_history, iterations, error,
                             approval_required, trace>>
           \/ /\ action # NoneAction
              /\ action.value = NonStrValue
              /\ status' = "error"
              /\ error' = "Action execution failed"
              /\ UNCHANGED <<last_action, action_history, iterations,
                             approval_required, trace>>
           \/ /\ action # NoneAction
              /\ action.value # NonStrValue
              /\ action.action = "click"
              /\ \E probe \in BOOLEAN, detection \in MissionDetections,
                    s1 \in {"ok", "fail"},
                    s2 \in {"clicked", "no_element", "raise"},
                    s3 \in {"ok", "fail"} :
                   LET e == execute_click(markers_map, action.target, probe,
                                          detection, s1, s2, s3)
                   IN  /\ approval_required' = (approval_required \/ e.approval)
                       /\ trace' = [trace EXCEPT !.dispatched = action,
                                                 !.verdict = e.verdict,
                                                 !.strategies = e.strategies,
                                                 !.results = e.results,
                                                 !.performed = IF e.clicked THEN "click" ELSE "none",
                                                 !.outcome = e.outcome]
              /\ status' = "executing"
              /\ Recorded(action)
           \/ /\ action # NoneAction
              /\ action.value # NonStrValue
              /\ action.action = "type"
              /\ \E probe \in BOOLEAN, failed_stage \in 0..Len(TypeStages) :
                   LET e == execute_type(markers_map, action.target, probe,
                                         failed_stage)
                   IN  /\ trace' = [trace EXCEPT !.dispatched = action,
                                                 !.performed = IF e.typed THEN "type" ELSE "none",
                                                 !.outcome = e.outcome]
              /\ status' = "executing"
              /\ Recorded(action)
              /\ UNCHANGED approval_required
           \/ /\ action # NoneAction
              /\ action.value # NonStrValue
              /\ action.action = "scroll"
              /\ \E scrolled \in BOOLEAN :
                   LET e == execute_scroll(scrolled)
                   IN  /\ trace' = [trace EXCEPT !.dispatched = action,
                                                 !.performed = IF e.scrolled THEN "scroll" ELSE "none",
                                                 !.outcome = e.outcome]
              /\ status' = "executing"
              /\ Recorded(action)
              /\ UNCHANGED approval_required
           \/ /\ action # NoneAction
              /\ action.value # NonStrValue
              /\ action.action = "done"
              /\ status' = "complete"
              /\ trace' = [trace EXCEPT !.dispatched = action]
              /\ Recorded(action)
              /\ UNCHANGED approval_required
    /\ page_labels' = remove_markers(page_labels,
                           last_action # NoneAction /\ last_action.value # NonStrValue)
    /\ ever_complete' = (ever_complete \/ status' = "complete")
    /\ pc' = AfterAction(route_after_action(
                 StateOf(status', last_action', iterations', max_iterations,
                         approval_required', approval_granted)))
    /\ UNCHANGED <<max_iterations, approval_granted, markers_map,
                   screenshot_base64, vision_analyzer, cycles>>
    /\ UNCHANGED <<harnessVars, serviceVars>>

Next == observer_node \/ reasoning_node \/ analyze_page_attempt \/ action_node

Spec == Init /\ [][Next]_vars

----------------------------------------------------------------------------
(* The safety guard as a function *)

InitGuard ==
    /\ create_initial_state(MaxIterations)
    /\ fn = "check_before_click"
    /\ arg \in [element_text : GuardTexts, detection : Detections]
    /\ ret = NoRet
    /\ svc = ServiceIdle

call_check_before_click ==
    /\ fn = "check_before_click"
    /\ ret = NoRet
    /\ ret' = check_before_click(arg.element_text, arg.detection)
    /\ UNCHANGED <<fn, arg>>
    /\ UNCHANGED <<missionVars, serviceVars>>

NextGuard == call_check_before_click

SpecGuard == InitGuard /\ [][NextGuard]_vars

----------------------------------------------------------------------------
(* Properties of the safety gate *)

\* C1: whenever the guard's verdict for a click target is
\* requires_approval = true, no click strategy is invoked for that action and
\* no click is performed; approval_required is set instead. A click is only
\* ever attempted on a target whose verdict was "safe".
C1_no_click_when_approval_required ==
    /\ trace.verdict = "required" =>
           /\ trace.strategies = <<>>
           /\ trace.performed = "none"
           /\ approval_required
    /\ trace.strategies # <<>> => trace.verdict = "safe"

\* the guard has blocked a click and the loop has stopped for approval
C1_witness ==
    /\ pc = "END"
    /\ trace.verdict = "required"
    /\ trace.outcome = "approval"
    /\ approval_required

\* C2: check_before_click with element text "Place your order" on a page
\* classified is_checkout = true with confidence 0.9 returns
\* requires_approval = true.
C2_claim ==
    ( /\ ret # NoRet
      /\ arg.element_text = PlaceYourOrder
      /\ arg.detection = [is_checkout |-> TRUE, confidence |-> 90] )
    => ret.requires_approval

\* C3: for every element text and every page classification,
\* check_before_click returns requires_approval = true exactly when the
\* lower-cased text contains one of the purchase-intent phrases; "Buy Now" at
\* confidence 0.1 gives true, "Continue shopping" on a checkout page at
\* confidence 0.9 gives false.
C3_approval_iff_risky_text ==
    ret # NoRet =>
        /\ ret.requires_approval <=>
              \E n \in 1..Len(high_risk_keywords) :
                  Contains(lower(arg.element_text), high_risk_keywords[n])
        /\ (arg.element_text = BuyNow /\ arg.detection.confidence = 10)
               => ret.requires_approval
        /\ (arg.element_text = ContinueShopping /\ arg.detection.is_checkout
               /\ arg.detection.confidence = 90)
               => ~ret.requires_approval

\* the lexical signal alone: "Buy Now" on a page not classified as checkout
C3_witness ==
    /\ ret # NoRet
    /\ arg.element_text = BuyNow
    /\ arg.detection = [is_checkout |-> FALSE, confidence |-> 10]
    /\ ret.requires_approval

----------------------------------------------------------------------------
(* Properties of the loop *)

C5_nothing_after_complete ==
    [][ever_complete =>
           /\ cycles' = cycles
           /\ trace'.performed = trace.performed
           /\ pc' # "observer"]_vars

\* a mission completed by a done action before its budget was used up
C5_witness ==
    /\ pc = "END"
    /\ ever_complete
    /\ trace.dispatched # NoneAction
    /\ trace.dispatched.action = "done"
    /\ iterations < max_iterations

\* C6: the graph executes at most max_iterations cycles before it routes to
\* END (stated for a budget of at least one cycle).
C6_claim == max_iterations >= 1 => cycles <= max_iterations

\* C7: if the observation stage of a cycle fails, the mission ends with
\* status error; in that cycle the oracle is not called, no action is
\* executed and the loop terminates.
C7_claim ==
    trace.obs = "failed" =>
        /\ status = "error"
        /\ pc \notin {"oracle", "observer"}
        /\ trace.oracle_calls = 0
        /\ trace.dispatched = NoneAction

\* C8: if the oracle fails on every attempt of a cycle, the mission ends with
\* status error and a cause, and no action is substituted for the decision.
C8_claim ==
    (trace.decision = "fallback" /\ trace.oracle_calls = max_retries) =>
        /\ status = "error"
        /\ error # Null
        /\ last_action.action # "done"
        /\ trace.dispatched = NoneAction

\* C9: an oracle response whose target label is not a key of the cycle's
\* label map is rejected by validation and never dispatched.
C9_claim ==
    /\ (trace.decision = "oracle" /\ last_action.target # NoTarget)
           => last_action.target \in DOMAIN markers_map
    /\ (trace.dispatched # NoneAction /\ trace.dispatched.target # NoTarget)
           => trace.dispatched.target \in DOMAIN markers_map

\* C10: if the reasoning stage of a cycle raises, no browser action is
\* executed in that cycle, nothing is dispatched, and the loop terminates
\* with status error.
C10_claim ==
    trace.decision = "raised" =>
        /\ status = "error"
        /\ pc \in {"action", "END"}
        /\ trace.dispatched = NoneAction
        /\ trace.performed = "none"

----------------------------------------------------------------------------
(* Properties of the mission status *)

\* C14: in every reachable state, if approval_required is true and
\* approval_granted is false then the status is waiting_approval.
C14_claim ==
    (approval_required /\ ~approval_granted) => status = "waiting_approval"

\* C15: in every reachable state the error field is non-null only if the
\* status is error.
C15_claim == error # Null => status = "error"

\* C16: the status changes only along planning -> observing, observing ->
\* reasoning, reasoning -> executing, executing -> {observing,
\* waiting_approval, complete, error}, or from a failing stage to error;
\* planning is never entered again and no change leaves complete or error.
C16_claim ==
    [][status' # status =>
         <<status, status'>> \in
             { <<"planning", "observing">>, <<"observing", "reasoning">>,
               <<"reasoning", "executing">>, <<"executing", "observing">>,
               <<"executing", "waiting_approval">>, <<"executing", "complete">>,
               <<"executing", "error">>, <<"planning", "error">>,
               <<"observing", "error">>, <<"reasoning", "error">> }]_vars

----------------------------------------------------------------------------
(* Properties of the stop test *)

\* C17: after each action stage the loop stops if and only if the mission is
\* complete, or iterations >= max_iterations, or the status is error, or
\* approval_required holds without approval_granted; otherwise it goes back
\* to the observation stage. The test is made after the action stage only.
C17_stop_iff_condition ==
    [][ /\ pc = "action" =>
              /\ pc' \in {"END", "observer"}
              /\ pc' = "END" <=>
                    \/ status' = "complete"
                    \/ (last_action' # NoneAction /\ last_action'.action = "done")
                    \/ iterations' >= max_iterations
                    \/ status' = "error"
                    \/ (approval_required' /\ ~approval_granted')
        /\ pc' = "END" => pc = "action" ]_vars

\* the loop has stopped for a pending approval alone
C17_witness ==
    /\ pc = "END"
    /\ approval_required /\ ~approval_granted
    /\ status = "executing"
    /\ iterations < max_iterations
    /\ last_action.action = "click"

\* the state the conditional edge is evaluated on, read off the variables
Current ==
    StateOf(status, last_action, iterations, max_iterations,
            approval_required, approval_granted)

----------------------------------------------------------------------------
(* Properties of the action history *)

\* C19: each action stage that dispatches an action appends exactly that
\* action to action_history and increments iterations by exactly 1; no other
\* step changes either; so len(action_history) = iterations in every
\* reachable state.
C19_history_matches_iterations ==
    [][ /\ Len(action_history') = iterations'
        /\ IF pc = "action" /\ trace'.dispatched # NoneAction
           THEN /\ action_history' = Append(action_history, trace'.dispatched)
                /\ iterations' = iterations + 1
           ELSE /\ action_history' = action_history
                /\ iterations' = iterations ]_vars

\* two cycles have each dispatched an action
C19_witness ==
    /\ iterations = 2
    /\ Len(action_history) = 2
    /\ trace.dispatched = action_history[2]

----------------------------------------------------------------------------
(* vision_utils.py: the Target Resolver, selector by selector *)

\* longest candidate-selector list explored
MaxSelectors == 3

SelectorNames == {"#a", "#b"}

\* what a selector finds on the page while the resolver runs:
\*   "absent"    no element matches
\*   "hidden"    an element matches and is not visible
\*   "disabled"  an element matches, is visible and is not enabled
\*   "ready"     an element matches, is visible and enabled
DomStates == {"absent", "hidden", "disabled", "ready"}

\* the "selectors" entries inject_markers can store (None entries included)
SelectorLists ==
    UNION { [1..n -> SelectorNames \cup {Null}] : n \in 0..MaxSelectors }

\* a loop that returns the last visible, enabled candidate
RECURSIVE last_interactable(_, _, _)
last_interactable(selectors, dom, i) ==
    IF i > Len(selectors) THEN Null
    ELSE LET later == last_interactable(selectors, dom, i + 1)
         IN  IF later # Null THEN later
             ELSE IF dom[selectors[i]] = "ready" THEN selectors[i]
             ELSE Null

\* the for loop: wait_for_selector(state="visible") times out unless the
\* element is visible; a visible element is returned only if it is enabled
RECURSIVE first_interactable(_, _, _)
first_interactable(selectors, dom, i) ==
    IF i > Len(selectors) THEN Null
    ELSE IF dom[selectors[i]] = "ready" THEN selectors[i]
    ELSE first_interactable(selectors, dom, i + 1)

\* the selectors the for loop probes, in order: it stops at the first
\* visible, enabled one
RECURSIVE probed_by_loop(_, _, _)
probed_by_loop(selectors, dom, i) ==
    IF i > Len(selectors) THEN <<>>
    ELSE IF dom[selectors[i]] = "ready" THEN <<selectors[i]>>
    ELSE <<selectors[i]>> \o probed_by_loop(selectors, dom, i + 1)

\* the selectors the whole call probes on the page: those of the loop, then
\* selectors[0] once more when the loop returned nothing
probed_selectors(in_map, element_info, dom) ==
    IF ~in_map THEN <<>>
    ELSE LET listed    == IF element_info.selectors # <<>>
                          THEN element_info.selectors
                          ELSE <<element_info.selector>>
             selectors == SelectSeq(listed, Truthy)
         IN  IF selectors = <<>> THEN <<>>
             ELSE IF first_interactable(selectors, dom, 1) # Null
             THEN probed_by_loop(selectors, dom, 1)
             ELSE Append(probed_by_loop(selectors, dom, 1), selectors[1])

\* a resolver whose last pass tries the "selector" field of the entry
get_element_by_marker_primary_fallback(in_map, element_info, dom) ==
    IF ~in_map THEN Null
    ELSE LET listed    == IF element_info.selectors # <<>>
                          THEN element_info.selectors
                          ELSE <<element_info.selector>>
             selectors == SelectSeq(listed, Truthy)
             primary   == element_info.selector
         IN  IF selectors = <<>> THEN Null
             ELSE LET found == first_interactable(selectors, dom, 1)
                  IN  IF found # Null THEN found
                      ELSE IF Truthy(primary) /\ dom[primary] # "absent"
                      THEN primary
                      ELSE Null

\* a resolver that gives up after the loop
get_element_by_marker_no_fallback(in_map, element_info, dom) ==
    IF ~in_map THEN Null
    ELSE LET listed    == IF element_info.selectors # <<>>
                          THEN element_info.selectors
                          ELSE <<element_info.selector>>
             selectors == SelectSeq(listed, Truthy)
         IN  IF selectors = <<>> THEN Null
             ELSE first_interactable(selectors, dom, 1)

\* get_element_by_marker with its page probes spelled out. `in_map` is the
\* test marker_number in markers_map, element_info the entry of the label.
get_element_by_marker_probing(in_map, element_info, dom) ==
    IF ~in_map THEN Null
    ELSE LET listed    == IF element_info.selectors # <<>>
                          THEN element_info.selectors
                          ELSE <<element_info.selector>>
             selectors == SelectSeq(listed, Truthy)
         IN  IF selectors = <<>> THEN Null
             ELSE LET found == first_interactable(selectors, dom, 1)
                  IN  IF found # Null THEN found
                      ELSE IF dom[selectors[1]] # "absent" THEN selectors[1]
                      ELSE Null

InitResolver ==
    /\ create_initial_state(MaxIterations)
    /\ fn = "get_element_by_marker"
    /\ arg \in [in_map : BOOLEAN,
                element_info : [selectors : SelectorLists,
                                selector : SelectorNames \cup {Null}],
                dom : [SelectorNames -> DomStates]]
    /\ ret = NoRet
    /\ svc = ServiceIdle

call_get_element_by_marker ==
    /\ fn = "get_element_by_marker"
    /\ ret = NoRet
    /\ ret' = [selector |-> get_element_by_marker_probing(arg.in_map,
                                arg.element_info, arg.dom),
               probed   |-> probed_selectors(arg.in_map, arg.element_info,
                                             arg.dom)]
    /\ UNCHANGED <<fn, arg>>
    /\ UNCHANGED <<missionVars, serviceVars>>

NextResolver == call_get_element_by_marker

SpecResolver == InitResolver /\ [][NextResolver]_vars

\* the candidate selectors of the call, None entries removed
Candidates ==
    SelectSeq(IF arg.element_info.selectors # <<>>
              THEN arg.element_info.selectors
              ELSE <<arg.element_info.selector>>, Truthy)

\* C20 as stated: get_element_by_marker returns None only if no selector in
\* the candidate list matches any element; if a candidate at any position
\* matches an existing element, hidden or disabled included, a selector is
\* returned.
C20_claim ==
    (ret # NoRet /\ arg.in_map) =>
        (ret.selector = Null =>
            \A i \in 1..Len(Candidates) : arg.dom[Candidates[i]] = "absent")

\* C20 amended: get_element_by_marker returns None only if no candidate
\* selector matches a visible, enabled element and the first candidate
\* matches no element; if a candidate at any position matches a visible,
\* enabled element, or the first candidate matches an existing element,
\* hidden or disabled included, a selector is returned.
C20_none_only_if_first_absent ==
    (ret # NoRet /\ arg.in_map) =>
        (ret.selector = Null =>
            /\ \A i \in 1..Len(Candidates) : arg.dom[Candidates[i]] # "ready"
            /\ Candidates # <<>> => arg.dom[Candidates[1]] = "absent")

\* the last pass returns a first candidate that exists and is hidden, while
\* a later candidate exists as well
C20_witness ==
    /\ ret # NoRet
    /\ arg.in_map
    /\ Len(Candidates) >= 2
    /\ arg.dom[Candidates[1]] = "hidden"
    /\ arg.dom[Candidates[2]] = "disabled"
    /\ ret.selector = Candidates[1]

\* C21: a selector returned for a label is a member of the candidate
\* selectors of that label in the map; for a label that is not a key of the
\* map None is returned and the page is not probed.
C21_selector_from_candidates ==
    ret # NoRet =>
        /\ ret.selector # Null =>
               /\ arg.in_map
               /\ \E i \in 1..Len(Candidates) : Candidates[i] = ret.selector
        /\ ~arg.in_map => (ret.selector = Null /\ ret.probed = <<>>)

\* the last pass has returned the first candidate, which differs from the
\* "selector" field of the entry
C21_witness ==
    /\ ret # NoRet
    /\ arg.in_map
    /\ ret.selector # Null
    /\ arg.dom[ret.selector] = "disabled"
    /\ Truthy(arg.element_info.selector)
    /\ arg.element_info.selector # ret.selector
    /\ arg.dom[arg.element_info.selector] = "hidden"

\* C30: when the element of some candidate is present, visible and enabled,
\* the earliest such candidate is returned and no candidate after it is
\* probed.
C30_earliest_interactable ==
    (ret # NoRet /\ arg.in_map) =>
        \A k \in 1..Len(Candidates) :
            ( /\ arg.dom[Candidates[k]] = "ready"
              /\ \A i \in 1..(k - 1) : arg.dom[Candidates[i]] # "ready" )
            => /\ ret.selector = Candidates[k]
               /\ ret.probed = SubSeq(Candidates, 1, k)

\* the second candidate is returned after a first one that is not enabled,
\* and a third candidate is left alone
C30_witness ==
    /\ ret # NoRet
    /\ arg.in_map
    /\ Len(Candidates) = 3
    /\ arg.dom[Candidates[1]] = "disabled"
    /\ arg.dom[Candidates[2]] = "ready"
    /\ Candidates[1] # Candidates[2]
    /\ ret.selector = Candidates[2]
    /\ Len(ret.probed) = 2

----------------------------------------------------------------------------
(* agent_service.py: AgentExecutor, one step per stretch of code between    *)
(* two points where a coroutine is suspended                                *)

InitService ==
    /\ create_initial_state(MaxIterations)
    /\ HarnessIdle
    /\ svc = ServiceIdle

\* create_session for an id that is not in use
create_session(id) ==
    /\ ~svc.sessions[id].exists
    /\ svc' = [svc EXCEPT !.sessions[id] = NewSession]
    /\ UNCHANGED <<missionVars, harnessVars>>

\* a cancel_session that tears the running generator down on the spot
cancel_session_abrupt(id) ==
    LET session == svc.sessions[id]
    IN  /\ IF ~session.exists
           THEN /\ ret' = [session_id |-> id, cancelled |-> FALSE]
                /\ UNCHANGED svc
           ELSE IF ~session.is_running
           THEN /\ ret' = [session_id |-> id, cancelled |-> FALSE]
                /\ UNCHANGED svc
           ELSE /\ ret' = [session_id |-> id, cancelled |-> TRUE]
                /\ svc' = [svc EXCEPT !.sessions[id].is_cancelled = TRUE,
                                      !.sessions[id].is_running = FALSE,
                                      !.sessions[id].exit = "cancel",
                                      !.sessions[id].at = "done"]
        /\ UNCHANGED <<fn, arg>>
        /\ UNCHANGED missionVars

\* a cancel_session that marks a session that is not running
cancel_session_marks_idle(id) ==
    LET session == svc.sessions[id]
    IN  /\ IF ~session.exists
           THEN /\ ret' = [session_id |-> id, cancelled |-> FALSE]
                /\ UNCHANGED svc
           ELSE IF ~session.is_running
           THEN /\ ret' = [session_id |-> id, cancelled |-> FALSE]
                /\ svc' = [svc EXCEPT !.sessions[id].is_cancelled = TRUE]
           ELSE /\ ret' = [session_id |-> id, cancelled |-> TRUE]
                /\ svc' = [svc EXCEPT !.sessions[id].is_cancelled = TRUE]
        /\ UNCHANGED <<fn, arg>>
        /\ UNCHANGED missionVars

\* cancel_session; ret is the call and the value it returns
cancel_session(id) ==
    LET session == svc.sessions[id]
    IN  /\ IF ~session.exists
           THEN /\ ret' = [session_id |-> id, cancelled |-> FALSE]
                /\ UNCHANGED svc
           ELSE IF ~session.is_running
           THEN /\ ret' = [session_id |-> id, cancelled |-> FALSE]
                /\ UNCHANGED svc
           ELSE /\ ret' = [session_id |-> id, cancelled |-> TRUE]
                /\ svc' = [svc EXCEPT !.sessions[id].is_cancelled = TRUE]
        /\ UNCHANGED <<fn, arg>>
        /\ UNCHANGED missionVars

\* the graph hands control to `node`: observer_node and action_node start
\* with get_browser(), which reads the module global
StartNode(session, node, global, closed) ==
    [session EXCEPT
        !.at          = "in_node",
        !.node        = node,
        !.loops       = IF node = "observer" THEN @ + 1 ELSE @,
        !.used        = IF node \in {"observer", "action"} THEN global ELSE @,
        !.used_closed = IF node \in {"observer", "action"}
                        THEN global \in closed ELSE @]

\* the edges observer -> reasoning -> action
NodeAfter(node) == IF node = "observer" THEN "reasoning" ELSE "action"

\* a finally block that clears is_running and leaves the browser open
Finally_without_close(id, session) ==
    [svc EXCEPT
        !.sessions[id] = [session EXCEPT !.is_running = FALSE,
                                         !.at = "done"]]

\* the finally block of execute_mission
Finally(id, session) ==
    [svc EXCEPT
        !.sessions[id] = [session EXCEPT !.is_running = FALSE,
                                         !.browser = FALSE,
                                         !.at = "done"],
        !.closed       = IF session.browser THEN @ \cup {id} ELSE @]

\* execute_mission up to its first yield
execute_mission(id) ==
    LET session == svc.sessions[id]
    IN  /\ session.at = "idle"
        /\ IF ~session.exists
           THEN svc' = [svc EXCEPT !.sessions[id].events = <<"error">>,
                                   !.sessions[id].at = "done"]
           ELSE svc' = [svc EXCEPT !.sessions[id].is_running = TRUE,
                                   !.sessions[id].events = <<"started">>,
                                   !.sessions[id].at = "started"]
        /\ UNCHANGED <<missionVars, harnessVars>>

\* execute_mission from the started event to the next yield, or into the
\* first node when there is no initial_url: the browser is made and
\* initialized (which can raise), set_browser stores it in the global,
\* navigate reports "ok" or "error"
execute_mission_browser(id) ==
    LET session == [svc.sessions[id] EXCEPT !.browser = TRUE]
    IN  /\ svc.sessions[id].at = "started"
        /\ \E initialized \in BOOLEAN, nav \in {"ok", "error", "none"} :
             IF ~initialized
             THEN svc' = [svc EXCEPT !.sessions[id] =
                            [session EXCEPT !.events = Append(@, "error"),
                                            !.at = "terminal"]]
             ELSE svc' = [svc EXCEPT
                            !.browser = id,
                            !.sessions[id] =
                               IF nav = "error"
                               THEN [session EXCEPT !.events = Append(@, "error"),
                                                    !.at = "terminal"]
                               ELSE IF nav = "ok"
                               THEN [session EXCEPT !.events = Append(@, "navigation"),
                                                    !.at = "navigated"]
                               ELSE StartNode(session, "observer", id, svc.closed)]
        /\ UNCHANGED <<missionVars, harnessVars>>

\* a node of the graph finishes (or astream raises): _run_graph yields the
\* state_update (or its error event) and the loop of execute_mission passes
\* it on, unless the session has been cancelled
graph_event(id) ==
    LET session == svc.sessions[id]
    IN  /\ session.at = "in_node"
        /\ \E raised \in BOOLEAN :
             svc' = [svc EXCEPT !.sessions[id] =
                       IF session.is_cancelled
                       THEN [session EXCEPT !.events = Append(@, "cancelled"),
                                            !.exit = "cancel",
                                            !.at = "terminal"]
                       ELSE IF raised
                       THEN [session EXCEPT !.events = Append(@, "error"),
                                            !.at = "graph_error"]
                       ELSE [session EXCEPT !.events = Append(@, "state_update"),
                                            !.at = "updated"]]
        /\ UNCHANGED <<missionVars, harnessVars>>

\* the states action_node can hand to route_after_action, as far as the
\* route depends on them: the status and whether the budget is used up
GraphStates ==
    { StateOf(mission_status, NoneAction, it, 1, FALSE, FALSE) :
        mission_status \in {"executing", "complete", "error"}, it \in {0, 1} }

\* the consumer asks for the next event: create_initial_state and the first
\* node after the navigation event; after a state_update the cancellation
\* test of _run_graph, then the next node or, after the action node, the
\* route; after the error event of _run_graph the end of the generator.
\* When _run_graph ends, execute_mission yields complete unless cancelled.
run_graph(id) ==
    LET session == svc.sessions[id]
        complete(why, mission_status) ==
            [svc EXCEPT !.sessions[id] =
                [session EXCEPT !.events = Append(@, "complete"),
                                !.exit = why,
                                !.status = mission_status,
                                !.at = "terminal"]]
        start(node) == [svc EXCEPT !.sessions[id] =
                          StartNode(session, node, svc.browser, svc.closed)]
    IN  /\ \/ /\ session.at = "navigated"
              /\ svc' = start("observer")
           \/ /\ session.at = "updated"
              /\ IF session.is_cancelled
                 THEN svc' = Finally(id, [session EXCEPT !.exit = "cancel"])
                 ELSE IF session.node # "action"
                 THEN svc' = start(NodeAfter(session.node))
                 ELSE \E state \in GraphStates :
                        LET route == route_after_action(state)
                        IN  IF route = "continue" /\ session.loops < MaxCycles
                            THEN svc' = start(AfterAction(route))
                            ELSE svc' = complete("end", state.status)
           \/ /\ session.at = "graph_error"
              /\ IF session.is_cancelled
                 THEN svc' = Finally(id, [session EXCEPT !.exit = "error"])
                 ELSE svc' = complete("error", session.status)
        /\ UNCHANGED <<missionVars, harnessVars>>

\* the consumer asks for the next event after a last one: the generator
\* runs its finally block and ends
execute_mission_finally(id) ==
    /\ svc.sessions[id].at = "terminal"
    /\ svc' = Finally(id, svc.sessions[id])
    /\ UNCHANGED <<missionVars, harnessVars>>

NextService ==
    \E id \in SessionIds :
        \/ create_session(id)
        \/ cancel_session(id)
        \/ execute_mission(id)
        \/ execute_mission_browser(id)
        \/ graph_event(id)
        \/ run_graph(id)
        \/ execute_mission_finally(id)

SpecService == InitService /\ [][NextService]_vars

----------------------------------------------------------------------------
(* Properties of the sessions *)

\* C11: every run of execute_mission for an existing session delivers a
\* complete, cancelled or error event before its stream ends, also when
\* cancel_session arrives while the consumer is processing an update.
C11_claim ==
    \A id \in SessionIds :
        LET session == svc.sessions[id]
        IN  (session.exists /\ session.at = "done") =>
                \E i \in 1..Len(session.events) :
                    session.events[i] \in {"complete", "cancelled", "error"}

\* C12 as stated: a cancel takes effect only at a cycle boundary: when the
\* loop is left because of a cancellation, the cycle that was started has
\* run to the end of its action stage.
C12_claim ==
    \A id \in SessionIds :
        LET session == svc.sessions[id]
        IN  session.exit = "cancel" => session.node = "action"

\* C12 amended: a cancel takes effect only at a stage boundary: a stage that
\* has started runs to its end and delivers its event before the loop is
\* left, and the loop is left because of a cancellation only at the end of
\* a stage or between two stages, after cancel_session has set the flag.
C12_cancel_at_stage_boundary ==
    [][\A id \in SessionIds :
         LET old == svc.sessions[id]
             new == svc'.sessions[id]
         IN  /\ (old.at = "in_node" /\ new.at # "in_node") =>
                    /\ new.at \in {"updated", "graph_error", "terminal"}
                    /\ Len(new.events) = Len(old.events) + 1
             /\ (new.exit = "cancel" /\ old.exit # "cancel") =>
                    /\ old.is_cancelled
                    /\ old.at \in {"in_node", "updated"}
                    /\ new.node = old.node]_vars

\* a cancellation has ended the loop after the decision stage of a cycle,
\* whose action stage never ran
C12_witness ==
    \E id \in SessionIds :
        LET session == svc.sessions[id]
        IN  /\ session.at = "done"
            /\ session.exit = "cancel"
            /\ session.node = "reasoning"
            /\ session.events[Len(session.events)] = "cancelled"

\* C25: cancel_session for an unknown session id, or for a session that is
\* not running (not yet started or already ended), returns False and changes
\* nothing: is_cancelled, is_running, the state and the browser of every
\* session stay as they are.
C25_refused_cancel_changes_nothing ==
    [][ret' # ret =>
          LET session == svc.sessions[ret'.session_id]
          IN  (~session.exists \/ ~session.is_running) =>
                  /\ ~ret'.cancelled
                  /\ svc' = svc]_vars

\* a session that was cancelled while it ran has ended, and a second cancel
\* of it has been refused
C25_witness ==
    \E id \in SessionIds :
        /\ ret = [session_id |-> id, cancelled |-> FALSE]
        /\ svc.sessions[id].exists
        /\ svc.sessions[id].at = "done"
        /\ svc.sessions[id].is_cancelled
        /\ ~svc.sessions[id].is_running

\* C13: with several missions running, every stage of a mission works on
\* the browser of its own session, and that browser has not been closed by
\* another mission.
C13_claim ==
    \A id \in SessionIds :
        LET session == svc.sessions[id]
        IN  /\ session.used \in {NoBrowser, id}
            /\ ~session.used_closed

----------------------------------------------------------------------------
(* Properties of the decision *)

\* C22: every action accepted by validate_action has a kind among click,
\* type, scroll, done; a click has a target; a type has a target and a
\* non-empty value.
C22_claim ==
    trace.decision = "oracle" =>
        /\ last_action.action \in {"click", "type", "scroll", "done"}
        /\ last_action.action = "click" => last_action.target # NoTarget
        /\ last_action.action = "type" =>
               /\ last_action.target # NoTarget
               /\ Truthy(last_action.value)

----------------------------------------------------------------------------
(* Properties of a mission suspended for approval *)

\* the graph runs a node that is ready to run: every step of the loop is
\* eventually taken
SpecLive == Spec /\ WF_vars(Next)

\* C24: a mission suspended for approval is resumable: from the
\* approval-pending state an approve signal is accepted (approval_granted
\* becomes true) and the loop goes on to perform the approved click.
C24_claim ==
    (pc = "END" /\ approval_required /\ ~approval_granted)
        ~> (approval_granted /\ trace.performed = "click")

----------------------------------------------------------------------------
(* Properties of the executor *)

\* C26: a click or type whose target cannot be resolved, or that fails at
\* every strategy or stage, is a failure of that action only: the status does
\* not become error, the action is appended to the history, iterations goes
\* up by 1, nothing is tried again in the cycle, and the next cycle starts
\* unless the budget is used up or an approval is pending.
C26_failed_action_is_local ==
    [][(pc = "action" /\ trace'.outcome = "failed") =>
          /\ trace'.dispatched = last_action
          /\ last_action.action \in {"click", "type"}
          /\ status' = "executing"
          /\ error' = error
          /\ action_history' = Append(action_history, last_action)
          /\ iterations' = iterations + 1
          /\ Len(trace'.strategies) <= 3
          /\ pc' = IF \/ iterations' >= max_iterations
                      \/ (approval_required' /\ ~approval_granted')
                   THEN "END" ELSE "observer"]_vars

\* a click whose three strategies all failed, with the next cycle to come
C26_witness ==
    /\ pc = "observer"
    /\ trace.outcome = "failed"
    /\ trace.dispatched.action = "click"
    /\ Len(trace.strategies) = 3
    /\ status = "executing"
    /\ action_history[Len(action_history)] = trace.dispatched
    /\ iterations < max_iterations

----------------------------------------------------------------------------
(* vision_utils.py: the Element Registry as a function *)

\* most elements the interactive-element query matches on a page
MaxElements == 4

\* a key of a Python dict: the int n, or the str of the digits of n
IntKey(n) == [type |-> "int", n |-> n]

StrKey(n) == [type |-> "str", n |-> n]

\* pages: element i of the tuple is the i-th element querySelectorAll
\* returns (document order, each element once), TRUE if the visibility test
\* of the script passes for it
RenderedPages == UNION { [1..n -> BOOLEAN] : n \in 0..MaxElements }

\* the script of inject_markers: markerNumber starts at 1 and goes up by one
\* for every visible element; markers[markerNumber] = {...}
RECURSIVE markers_script(_, _, _)
markers_script(elements, i, markerNumber) ==
    IF i > Len(elements) THEN <<>>
    ELSE IF ~elements[i] THEN markers_script(elements, i + 1, markerNumber)
    ELSE <<[key |-> markerNumber, element |-> i]>>
         \o markers_script(elements, i + 1, markerNumber + 1)

\* page.evaluate: the property names of a JavaScript object arrive as the
\* str keys of a Python dict
evaluate(markers) ==
    [k \in 1..Len(markers) |->
        [key |-> StrKey(markers[k].key), element |-> markers[k].element]]

\* inject_markers: the dict it returns, as the tuple of its items in
\* insertion order; {} when anything raises
inject_markers(elements, is_amazon, raised) ==
    IF raised THEN <<>>
    ELSE LET items == evaluate(markers_script(elements, 1, 1))
         IN  IF is_amazon
             THEN [k \in 1..Len(items) |->
                     [key |-> IntKey(items[k].key.n),
                      element |-> items[k].element]]
             ELSE items

InitRegistry ==
    /\ create_initial_state(MaxIterations)
    /\ fn = "inject_markers"
    /\ arg \in [elements : RenderedPages, is_amazon : BOOLEAN, raised : BOOLEAN]
    /\ ret = NoRet
    /\ svc = ServiceIdle

call_inject_markers ==
    /\ fn = "inject_markers"
    /\ ret = NoRet
    /\ ret' = [markers_map |-> inject_markers(arg.elements, arg.is_amazon,
                                              arg.raised)]
    /\ UNCHANGED <<fn, arg>>
    /\ UNCHANGED <<missionVars, serviceVars>>

NextRegistry == call_inject_markers

SpecRegistry == InitRegistry /\ [][NextRegistry]_vars

\* C27: in every label map the registry returns for one render the labels
\* are exactly the integers 1..N, N >= 0, without gap or duplicate, given in
\* traversal order to the visible interactive elements.
C27_claim ==
    ret # NoRet =>
        LET m == ret.markers_map
        IN  /\ \A k \in 1..Len(m) : m[k].key = IntKey(k)
            /\ \A k \in 1..Len(m) : arg.elements[m[k].element]
            /\ \A j, k \in 1..Len(m) : j < k => m[j].element < m[k].element
            /\ ~arg.raised =>
                   Len(m) = Cardinality({i \in 1..Len(arg.elements) : arg.elements[i]})

\* C28: for a click whose target resolved and that needs no approval, the
\* strategies are tried in the order standard, script, forced, each one only
\* after the one before it failed and none after a success; when the first
\* two fail and the forced click succeeds the action is reported as
\* successful and exactly one history entry is added for it.
C28_strategies_in_order ==
    [][(pc = "action" /\ trace'.verdict = "safe") =>
          LET tried   == trace'.strategies
              results == trace'.results
          IN  /\ Len(tried) \in 1..3
              /\ tried = SubSeq(<<"standard", "script", "forced">>, 1, Len(tried))
              /\ Len(results) = Len(tried)
              /\ \A i \in 1..(Len(tried) - 1) : results[i] \in {"fail", "raise"}
              /\ results = <<"fail", "raise", "ok">> =>
                     /\ trace'.outcome = "success"
                     /\ action_history' = Append(action_history, last_action)]_vars

\* the first two strategies failed and the forced click went through
C28_witness ==
    /\ trace.verdict = "safe"
    /\ trace.results = <<"fail", "raise", "ok">>
    /\ trace.outcome = "success"
    /\ trace.performed = "click"
    /\ action_history[Len(action_history)] = trace.dispatched

\* C29: a click is reported as successful only if one of the three strategies
\* performed a click on the target element; a script-level click that does
\* not find the element is a failed strategy.
C29_claim ==
    (trace.dispatched.action = "click" /\ trace.outcome = "success")
        => trace.performed = "click"

----------------------------------------------------------------------------
(* ai_vision.py: the requests of one analyze_page call *)

\* str(e) of an exception raised by model.generate_content, as far as
\* _generate_with_retry tells the cases apart
GeminiErrors == {"ResourceExhausted", "InvalidArgument", "other"}

\* how one request to the model ended: the text of the exception, or what
\* parse_gemini_json and validate_action make of the returned text
RequestOutcome(r, error_str) ==
    IF r.kind = "exception" THEN error_str
    ELSE IF r.kind = "unparseable" THEN "unparseable"
    ELSE IF validate_action(ParsedAction(r)) THEN "valid"
    ELSE "invalid"

\* _generate_with_retry: one request; after an InvalidArgument error a second
\* request with the half-size image, whose result or exception is the result
\* of the call; any other exception is raised again
generate_with_retry(first, error_str, second, second_error_str) ==
    IF first.kind = "exception" /\ error_str = "InvalidArgument"
    THEN [response |-> second,
          requests |-> <<RequestOutcome(first, error_str),
                         RequestOutcome(second, second_error_str)>>]
    ELSE [response |-> first,
          requests |-> <<RequestOutcome(first, error_str)>>]

\* analyze_page has been entered with a screenshot that decodes
InitOracle ==
    /\ create_initial_state(MaxIterations)
    /\ fn = "analyze_page"
    /\ arg = NoArg
    /\ ret = [attempt |-> 0, requests |-> <<>>, result |-> "none",
              action |-> NoneAction]
    /\ svc = ServiceIdle

\* one pass through `for attempt in range(max_retries)` of analyze_page
analyze_page_loop ==
    /\ fn = "analyze_page"
    /\ ret.result = "none"
    /\ \E first \in OracleResponses, second \in OracleResponses,
          error_str \in GeminiErrors, second_error_str \in GeminiErrors :
         LET g == generate_with_retry(first, error_str, second, second_error_str)
             requests == ret.requests \o g.requests
         IN  IF AttemptSucceeds(g.response)
             THEN ret' = [attempt |-> ret.attempt + 1, requests |-> requests,
                          result |-> "action",
                          action |-> ParsedAction(g.response)]
             ELSE IF ret.attempt < max_retries - 1
             THEN ret' = [ret EXCEPT !.attempt = @ + 1, !.requests = requests]
             ELSE ret' = [attempt |-> ret.attempt + 1, requests |-> requests,
                          result |-> "fallback", action |-> FallbackAction]
    /\ UNCHANGED <<fn, arg>>
    /\ UNCHANGED <<missionVars, serviceVars>>

NextOracle == analyze_page_loop

SpecOracle == InitOracle /\ [][NextOracle]_vars

\* C31: for one decision the oracle is requested at most 3 times; a further
\* request is made only after the one before failed, the first valid action
\* ends the requests and is returned, and the oracle counts as failed for
\* the cycle only after the third failure.
C31_claim ==
    /\ Len(ret.requests) <= max_retries
    /\ \A i \in 1..Len(ret.requests) :
         ret.requests[i] = "valid" =>
             /\ i = Len(ret.requests)
             /\ ret.result = "action"
    /\ ret.result = "fallback" => Len(ret.requests) = max_retries

----------------------------------------------------------------------------
(* Claims on the label map of a cycle *)

\* C32: the label map with which a click or type target is resolved and
\* safety-checked in a cycle was built by the observation of that same
\* cycle; the map of an earlier cycle is never used.
C32_claim ==
    (trace.dispatched # NoneAction /\ trace.dispatched.action \in {"click", "type"})
        => trace.map_built

----------------------------------------------------------------------------
(* agent_state.py, gemini_helper.py: the action history shown to the oracle *)

\* longest action_history of the harness
MaxHistory == 6

\* entries of state["action_history"]
HistoryActions ==
    { [action |-> "click",  target |-> 1,        value |-> Null,  reasoning |-> "text"],
      [action |-> "type",   target |-> 2,        value |-> "usb", reasoning |-> "text"] }

Histories == UNION { [1..n -> HistoryActions] : n \in 0..MaxHistory }

\* a Python slice list[-count:] for count > 0
LastOf(list, count) ==
    SubSeq(list, IF Len(list) > count THEN Len(list) - count + 1 ELSE 1, Len(list))

\* get_recent_actions(state, count)
get_recent_actions(history, count) ==
    IF history # <<>> THEN LastOf(history, count) ELSE <<>>

\* the line of the prompt for the i-th action it shows: its number, kind and
\* target, and the value when it is truthy
HistoryLine(i, action) ==
    [number |-> i, action |-> action.action, target |-> action.target,
     value |-> IF Truthy(action.value) THEN action.value ELSE Null]

\* create_vision_prompt, the "Recent Actions" part: one line for each of the
\* last 3 actions it was given; no line when it was given none
create_vision_prompt(history) ==
    LET recent_actions == IF history # <<>> THEN LastOf(history, 3) ELSE <<>>
    IN  [i \in 1..Len(recent_actions) |-> HistoryLine(i, recent_actions[i])]

InitPrompt ==
    /\ create_initial_state(MaxIterations)
    /\ fn = "reasoning_node"
    /\ arg \in Histories
    /\ ret = [at |-> "start", action_history |-> arg, recent_actions |-> <<>>,
              history_lines |-> <<>>]
    /\ svc = ServiceIdle

\* reasoning_node: recent_actions = get_recent_actions(state, count=5)
call_get_recent_actions ==
    /\ fn = "reasoning_node"
    /\ ret.at = "start"
    /\ ret' = [ret EXCEPT !.at = "analyze_page",
                          !.recent_actions = get_recent_actions(ret.action_history, 5)]
    /\ UNCHANGED <<fn, arg>>
    /\ UNCHANGED <<missionVars, serviceVars>>

\* analyze_page: prompt = create_vision_prompt(markers_map, user_goal,
\* action_history, page_context), with the list reasoning_node passed
call_create_vision_prompt ==
    /\ fn = "reasoning_node"
    /\ ret.at = "analyze_page"
    /\ ret' = [ret EXCEPT !.at = "prompt",
                          !.history_lines = create_vision_prompt(ret.recent_actions)]
    /\ UNCHANGED <<fn, arg>>
    /\ UNCHANGED <<missionVars, serviceVars>>

NextPrompt == call_get_recent_actions \/ call_create_vision_prompt

SpecPrompt == InitPrompt /\ [][NextPrompt]_vars

\* C36: the recent history given to the oracle in a cycle is exactly the last
\* min(5, len(action_history)) actions, in chronological order, and
\* action_history is left as it was.
C36_claim ==
    ret.at = "prompt" =>
        LET n == IF Len(arg) < 5 THEN Len(arg) ELSE 5
        IN  /\ Len(ret.history_lines) = n
            /\ \A i \in 1..Len(ret.history_lines) :
                 ret.history_lines[i] = HistoryLine(i, arg[Len(arg) - n + i])
            /\ ret.action_history = arg

----------------------------------------------------------------------------
(* checkout_guard.py: is_checkout_page and its detection cache *)

\* latest value of time.time() in the harness, in seconds
MaxTime == 6

\* seconds
CACHE_TTL == 5

Urls == {"cart", "checkout"}

\* what detect_checkout_page can return
Classifications == {"is_checkout", "not_checkout"}

\* the result of is_checkout_page's except branch
DetectionFailed == "Detection failed"

\* no entry of _detection_cache under a URL
NoEntry == [result |-> "none", time |-> -1]

\* the coroutines that call is_checkout_page (one per running mission)
Callers == {"m1", "m2"}

IdleCall == [at |-> "idle", url |-> "none", current_time |-> -1, result |-> "none"]

\* a cached entry that is returned whatever its age
cache_hit_never_expires(cache, url, current_time) ==
    cache[url] # NoEntry

\* `if url in _detection_cache` and `current_time - cached_time < CACHE_TTL`
cache_hit(cache, url, current_time) ==
    /\ cache[url] # NoEntry
    /\ current_time - cache[url].time < CACHE_TTL

InitCache ==
    /\ create_initial_state(MaxIterations)
    /\ fn = "is_checkout_page"
    /\ arg = NoArg
    /\ ret = [now |-> 0, cache |-> [u \in Urls |-> NoEntry],
              calls |-> [c \in Callers |-> IdleCall]]
    /\ svc = ServiceIdle

\* time.time() advances
tick ==
    /\ fn = "is_checkout_page"
    /\ ret.now < MaxTime
    /\ ret' = [ret EXCEPT !.now = @ + 1]
    /\ UNCHANGED <<fn, arg>>
    /\ UNCHANGED <<missionVars, serviceVars>>

\* is_checkout_page up to its first await: page.url (which raises when the
\* page is gone), time.time(), the cache lookup; get_vision_analyzer raises
\* when the analyzer cannot be built
is_checkout_page(c) ==
    /\ fn = "is_checkout_page"
    /\ ret.calls[c].at = "idle"
    /\ \E url \in Urls, raised \in BOOLEAN :
         LET current_time == ret.now
         IN  IF raised
             THEN ret' = [ret EXCEPT !.calls[c] =
                              [IdleCall EXCEPT !.at = "failed", !.result = DetectionFailed]]
             ELSE IF cache_hit(ret.cache, url, current_time)
             THEN ret' = [ret EXCEPT !.calls[c] =
                              [at |-> "hit", url |-> url, current_time |-> -1,
                               result |-> ret.cache[url].result]]
             ELSE ret' = [ret EXCEPT !.calls[c] =
                              [at |-> "awaiting", url |-> url,
                               current_time |-> current_time, result |-> "none"]]
    /\ UNCHANGED <<fn, arg>>
    /\ UNCHANGED <<missionVars, serviceVars>>

\* detect_checkout_page has answered: the result is stored under the URL
\* with the time read before the request, and returned
is_checkout_page_detected(c) ==
    /\ fn = "is_checkout_page"
    /\ ret.calls[c].at = "awaiting"
    /\ \E result \in Classifications :
         ret' = [ret EXCEPT
                   !.cache[ret.calls[c].url] =
                        [result |-> result, time |-> ret.calls[c].current_time],
                   !.calls[c] = [at |-> "detected", url |-> ret.calls[c].url,
                                 current_time |-> -1, result |-> result]]
    /\ UNCHANGED <<fn, arg>>
    /\ UNCHANGED <<missionVars, serviceVars>>

\* check_before_click has taken the result
is_checkout_page_return(c) ==
    /\ fn = "is_checkout_page"
    /\ ret.calls[c].at \in {"hit", "detected", "failed"}
    /\ ret' = [ret EXCEPT !.calls[c] = IdleCall]
    /\ UNCHANGED <<fn, arg>>
    /\ UNCHANGED <<missionVars, serviceVars>>

NextCache ==
    \/ tick
    \/ \E c \in Callers : \/ is_checkout_page(c)
                          \/ is_checkout_page_detected(c)
                          \/ is_checkout_page_return(c)

SpecCache == InitCache /\ [][NextCache]_vars

\* C35: is_checkout_page calls the classifier for a URL only when the cache
\* holds no result for that same URL younger than the TTL; a call that
\* returns a cached result returns the result stored under its own URL,
\* unchanged, and only while that entry is younger than the TTL. The age of
\* an entry is counted from the time its call read before asking the
\* classifier, which is the time the code stores with it.
C35_cache_discipline ==
    [][\A c \in Callers :
         /\ (ret.calls[c].at = "idle" /\ ret'.calls[c].at = "awaiting") =>
                \/ ret.cache[ret'.calls[c].url] = NoEntry
                \/ ret.now - ret.cache[ret'.calls[c].url].time >= CACHE_TTL
         /\ (ret.calls[c].at = "idle" /\ ret'.calls[c].at = "hit") =>
                /\ ret.cache[ret'.calls[c].url] # NoEntry
                /\ ret.now - ret.cache[ret'.calls[c].url].time < CACHE_TTL
                /\ ret'.calls[c].result = ret.cache[ret'.calls[c].url].result
                /\ ret'.cache = ret.cache]_vars

\* a call has returned the cached result of its URL although the entry of
\* the other URL holds a different result, and an entry of the cache has
\* already outlived the TTL
C35_witness ==
    /\ fn = "is_checkout_page"
    /\ \E c \in Callers :
         /\ ret.calls[c].at = "hit"
         /\ \E u \in Urls \ {ret.calls[c].url} :
              /\ ret.cache[u] # NoEntry
              /\ ret.cache[u].result # ret.calls[c].result
              /\ ret.now - ret.cache[u].time >= CACHE_TTL

----------------------------------------------------------------------------
(* amazon_selectors.py: enhance_element_with_amazon_selectors *)

\* AMAZON_SELECTORS, the entries enhance_element_with_amazon_selectors uses
AMAZON_SELECTORS ==
    [search_box    |-> <<"#twotabsearchtextbox",
                         "input[name='field-keywords']",
                         "input[type='text'][aria-label*='Search']",
                         "input#nav-search-keywords",
                         "input.nav-input">>,
     search_button |-> <<"#nav-search-submit-button",
                         "input[type='submit'][value='Go']",
                         "input.nav-input[type='submit']",
                         "button[type='submit'][aria-label*='Go']",
                         "#nav-search-bar-form input[type='submit']">>,
     product_link  |-> <<"h2 a.a-link-normal",
                         ".s-result-item h2 a",
                         "div[data-component-type='s-search-result'] h2 a",
                         "a.s-no-outline",
                         ".s-product-image-container a">>,
     add_to_cart   |-> <<"#add-to-cart-button",
                         "input#add-to-cart-button",
                         "button[name='submit.add-to-cart']",
                         "#submit.add-to-cart-announce">>,
     buy_now       |-> <<"#buy-now-button",
                         "input#buy-now-button",
                         "button[name='submit.buy-now']">>]

get_amazon_element_selectors(element_type) == AMAZON_SELECTORS[element_type]

\* the selectors the marker script generates for an element, in the order of
\* its priorities: id, name, class, nth-child
GeneratedSelectors ==
    <<"#add-to-cart-button", "tag[name]", "tag.s-result-item", "tag:nth-child(1)">>

\* order-preserving choices of candidates from the generated selectors
RECURSIVE PickFrom(_, _)
PickFrom(list, keep) ==
    IF list = <<>> THEN <<>>
    ELSE IF Len(list) \in keep
         THEN Append(PickFrom(SubSeq(list, 1, Len(list) - 1), keep), list[Len(list)])
         ELSE PickFrom(SubSeq(list, 1, Len(list) - 1), keep)

ElementSelectors ==
    { PickFrom(GeneratedSelectors, keep) :
        keep \in { k \in SUBSET (1..Len(GeneratedSelectors)) :
                     Cardinality(k) \in 1..MaxSelectors } }

\* `sub in s` for the strings of the harness
In(sub, s) ==
    <<sub, s>> \in { <<"search", "search">>, <<"go", "go">>,
                     <<"add to cart", "add to cart">>, <<"buy now", "buy now">>,
                     <<"add-to-cart", "#add-to-cart-button">>,
                     <<"s-result-item", "tag.s-result-item">> }

\* elements of the label map as inject_markers' script returns them (no
\* placeholder and no name attribute)
MarkedElements ==
    { [type |-> t, text |-> x, aria_label |-> a, input_type |-> i,
       selectors |-> s, selector |-> s[1]] :
        t \in {"input", "button", "a"},
        x \in {"", "add to cart", "buy now", "go"},
        a \in {"", "search"},
        i \in {"", "submit"},
        s \in ElementSelectors }

\* build_xpath_selector: an XPath when the element has a text or an aria-label
build_xpath_selector(element_info) ==
    IF element_info.text # "" \/ element_info.aria_label # ""
    THEN "//xpath" ELSE Null

\* "Match against Amazon element types": the selector list after the match
MatchedSelectors(enhanced, selectors) ==
    IF enhanced.type = "input"
    THEN IF In("search", enhanced.aria_label)
         THEN get_amazon_element_selectors("search_box") \o selectors
         ELSE IF enhanced.input_type = "submit" /\ In("go", enhanced.text)
         THEN get_amazon_element_selectors("search_button") \o selectors
         ELSE selectors
    ELSE IF enhanced.type = "button"
    THEN IF In("add to cart", enhanced.text) \/ In("add-to-cart", enhanced.selector)
         THEN get_amazon_element_selectors("add_to_cart") \o selectors
         ELSE IF In("buy now", enhanced.text)
         THEN get_amazon_element_selectors("buy_now") \o selectors
         ELSE IF In("search", enhanced.aria_label) \/ In("go", enhanced.text)
         THEN get_amazon_element_selectors("search_button") \o selectors
         ELSE selectors
    ELSE IF enhanced.type = "a" /\ In("s-result-item", enhanced.selector)
    THEN get_amazon_element_selectors("product_link") \o selectors
    ELSE selectors

\* "Remove duplicates while preserving order", empty strings dropped
RECURSIVE unique_selectors(_)
unique_selectors(selectors) ==
    IF selectors = <<>> THEN <<>>
    ELSE LET front == unique_selectors(SubSeq(selectors, 1, Len(selectors) - 1))
             sel   == selectors[Len(selectors)]
         IN  IF sel # "" /\ \A i \in 1..Len(front) : front[i] # sel
             THEN Append(front, sel) ELSE front

enhance_element_with_amazon_selectors(element_info, is_amazon) ==
    IF ~is_amazon THEN element_info
    ELSE LET matched == MatchedSelectors(element_info, <<element_info.selector>>)
             xpath   == build_xpath_selector(element_info)
             all     == IF xpath # Null THEN Append(matched, xpath) ELSE matched
             unique  == unique_selectors(all)
         IN  [element_info EXCEPT
                !.selectors = unique,
                !.selector  = IF unique # <<>> THEN unique[1] ELSE @]

InitEnhance ==
    /\ create_initial_state(MaxIterations)
    /\ fn = "enhance_element_with_amazon_selectors"
    /\ arg \in [element_info : MarkedElements, is_amazon : BOOLEAN]
    /\ ret = NoRet
    /\ svc = ServiceIdle

call_enhance_element_with_amazon_selectors ==
    /\ fn = "enhance_element_with_amazon_selectors"
    /\ ret = NoRet
    /\ ret' = enhance_element_with_amazon_selectors(arg.element_info, arg.is_amazon)
    /\ UNCHANGED <<fn, arg>>
    /\ UNCHANGED <<missionVars, serviceVars>>

NextEnhance == call_enhance_element_with_amazon_selectors

SpecEnhance == InitEnhance /\ [][NextEnhance]_vars

\* C33: on an Amazon URL the returned candidate list has no duplicates and
\* every generic candidate selector of the input element is still in it, in
\* the original relative order, after the Amazon selectors that were put in
\* front; on any other URL the descriptor is returned unchanged.
C33_claim ==
    (fn = "enhance_element_with_amazon_selectors" /\ ret # NoRet) =>
        IF ~arg.is_amazon THEN ret = arg.element_info
        ELSE LET generic == arg.element_info.selectors
                 Position(s) == CHOOSE i \in 1..Len(ret.selectors) : ret.selectors[i] = s
             IN  /\ \A i, j \in 1..Len(ret.selectors) :
                        ret.selectors[i] = ret.selectors[j] => i = j
                 /\ \A i \in 1..Len(generic) :
                        \E k \in 1..Len(ret.selectors) : ret.selectors[k] = generic[i]
                 /\ \A i, j \in 1..Len(generic) :
                        i < j => Position(generic[i]) < Position(generic[j])

\* C34: when the screenshot of a cycle is taken, the marker labels on the
\* page are exactly the labels of the map stored for that cycle; and after
\* every action stage, whichever way it ended, no marker label is left on
\* the page.
C34_claim ==
    /\ (pc = "reasoning" /\ trace.obs = "ok") => page_labels = Len(markers_map)
    /\ (pc \in {"observer", "END"} /\ cycles > 0) => page_labels = 0

----------------------------------------------------------------------------
(* Claims on the end of an event stream *)

\* C37: the event stream of execute_mission holds at most one terminal
\* event (complete, cancelled or error) and no event follows it; an error
\* event of the graph run is not followed by a complete event.
C37_claim ==
    \A id \in SessionIds :
        LET events == svc.sessions[id].events
        IN  \A i \in 1..Len(events) :
                events[i] \in {"complete", "cancelled", "error"} => i = Len(events)

\* C38: a complete event is emitted only when the final status of the
\* mission is complete, and a mission whose loop ended with status error
\* ends its stream with an error event.
C38_claim ==
    \A id \in SessionIds :
        LET session == svc.sessions[id]
            events  == session.events
        IN  (session.at \in {"terminal", "done"} /\ session.exit = "end") =>
                /\ events[Len(events)] = "complete" => session.status = "complete"
                /\ session.status = "error" => events[Len(events)] = "error"

\* C39: when a run of execute_mission on an existing session has ended, by
\* whatever path (normal end, navigation failure, cancellation, exception),
\* session.is_running is false, the session's browser has been closed and
\* session.browser is None.
C39_run_ends_clean ==
    \A id \in SessionIds :
        LET session == svc.sessions[id]
        IN  (session.exists /\ session.at = "done") =>
                /\ ~session.is_running
                /\ ~session.browser
                /\ id \in svc.closed

\* one run has ended after a failure and another after a cancellation
C39_witness ==
    \E id, other \in SessionIds :
        /\ svc.sessions[id].exists
        /\ svc.sessions[id].at = "done"
        /\ svc.sessions[id].events[Len(svc.sessions[id].events)] = "error"
        /\ svc.sessions[other].exists
        /\ svc.sessions[other].at = "done"
        /\ svc.sessions[other].exit = "cancel"

----------------------------------------------------------------------------
(* agent_service.py: the dictionary AgentExecutor.sessions and the          *)
(* AgentSession objects it refers to                                        *)

\* number of AgentSession objects created
MaxSessions == 3

\* no object under a session id
NoObject == 0

\* an AgentSession object that has not been created, and AgentSession.__init__
\* with the position of the execute_mission generator that runs on it
NotCreated ==
    [session_id |-> "none", is_running |-> FALSE, is_cancelled |-> FALSE,
     at |-> "none"]

InitSessions ==
    /\ create_initial_state(MaxIterations)
    /\ HarnessIdle
    /\ svc = [sessions |-> [id \in SessionIds |-> NoObject],
              objects  |-> [o \in 1..MaxSessions |-> NotCreated],
              created  |-> 0]

\* create_session: self.sessions[session_id] = AgentSession(session_id, ...),
\* whether or not the id is already a key
create_session_under(id) ==
    /\ svc.created < MaxSessions
    /\ LET o == svc.created + 1
       IN  svc' = [svc EXCEPT
                     !.created = o,
                     !.sessions[id] = o,
                     !.objects[o] = [session_id |-> id, is_running |-> FALSE,
                                     is_cancelled |-> FALSE, at |-> "idle"]]
    /\ UNCHANGED <<missionVars, harnessVars>>

\* execute_mission(session_id) up to the started event, on the session that
\* get_session finds
execute_mission_under(id) ==
    /\ svc.sessions[id] # NoObject
    /\ svc.objects[svc.sessions[id]].at = "idle"
    /\ svc' = [svc EXCEPT !.objects[svc.sessions[id]].is_running = TRUE,
                          !.objects[svc.sessions[id]].at = "running"]
    /\ UNCHANGED <<missionVars, harnessVars>>

\* cancel_session(session_id), on the session that get_session finds
cancel_session_under(id) ==
    /\ svc.sessions[id] # NoObject
    /\ svc.objects[svc.sessions[id]].is_running
    /\ svc' = [svc EXCEPT !.objects[svc.sessions[id]].is_cancelled = TRUE]
    /\ UNCHANGED <<missionVars, harnessVars>>

\* the rest of a run of execute_mission on object o: the loop ends, at the
\* next update when the object is cancelled, and the finally block runs
execute_mission_ends(o) ==
    /\ svc.objects[o].at = "running"
    /\ svc' = [svc EXCEPT
                 !.objects[o].is_running = FALSE,
                 !.objects[o].at = IF svc.objects[o].is_cancelled
                                   THEN "cancelled" ELSE "complete"]
    /\ UNCHANGED <<missionVars, harnessVars>>

NextSessions ==
    \/ \E id \in SessionIds : \/ create_session_under(id)
                              \/ execute_mission_under(id)
                              \/ cancel_session_under(id)
    \/ \E o \in 1..MaxSessions : execute_mission_ends(o)

SpecSessions == InitSessions /\ [][NextSessions]_vars

\* C40: while a mission runs under session id S, S refers to the session of
\* that mission, whatever create_session calls are made meanwhile, so that
\* cancel_session(S) reaches the running mission.
C40_claim ==
    \A o \in 1..MaxSessions :
        svc.objects[o].is_running => svc.sessions[svc.objects[o].session_id] = o

=============================================================================
